---- MODULE Spec2Model ----
(***************************************************************************)
(* A model of PyCDE's module builder (frontends/PyCDE/src/pycde/module.py): *)
(* the parameterization cache (modparams), module-name derivation, the      *)
(* class scanner (scan_cls), the instance builder (instantiate) and the     *)
(* generator engine (generate, GeneratorCtxt, PortProxyBase,                *)
(* _BlockContext).                                                          *)
(*                                                                          *)
(* Python strings whose characters the code inspects are sequences of       *)
(* ASCII code points, so that startswith, isalnum, sorted, replace and      *)
(* strip are computed as Python computes them.                              *)
(***************************************************************************)
EXTENDS Integers, Sequences, FiniteSets, TLC

VARIABLES
  \* modparams / _MODULE_CACHE
  MODULE_CACHE, parameters, nextCls, bodyRuns, returned, lastCall, nCalls, rawCalls,
  \* _create_module_name
  nmBuilder, nmResult, nmOrder,
  \* scan_cls
  cls_dct, markers, ports, clocks, resets, generators, constants, scans, firstScan,
  \* instantiate
  instMod, inst_inputs, lastInst, instances, op_cache,
  \* generate
  frames, current_block_context, circt_mod, lastGen, lastSet,
  \* _BlockContext.symbols
  symbols, uniqReturned, lastUniq

cacheVars == <<MODULE_CACHE, parameters, nextCls, bodyRuns, returned, lastCall, nCalls,
               rawCalls>>
nameVars  == <<nmBuilder, nmResult, nmOrder>>
scanVars  == <<cls_dct, markers, ports, clocks, resets, generators, constants, scans, firstScan>>
instVars  == <<instMod, inst_inputs, lastInst, instances, op_cache>>
genVars   == <<frames, current_block_context, circt_mod, lastGen, lastSet>>
symVars   == <<symbols, uniqReturned, lastUniq>>
vars      == <<cacheVars, nameVars, scanVars, instVars, genVars, symVars>>

(***************************************************************************)
(* Python str helpers over sequences of code points.                        *)
(***************************************************************************)

\* str.isalnum() on one ASCII character.
IsAlnum(c) ==
  \/ c \in 48..57
  \/ c \in 65..90
  \/ c \in 97..122

\* The characters of the literal "!>[],\"" tested by `c not in` (line 53).
DroppedChars == {33, 62, 91, 93, 44, 34}

\* The literal "!hw." removed by name.replace (line 49).
HwPrefix == <<33, 104, 119, 46>>

\* s.startswith(p)
StartsWith(s, p) ==
  /\ Len(s) >= Len(p)
  /\ SubSeq(s, 1, Len(p)) = p

\* Python's < on str: lexicographic by code point, a proper prefix first.
RECURSIVE StrLess(_, _)
StrLess(a, b) ==
  IF b = <<>> THEN FALSE
  ELSE IF a = <<>> THEN TRUE
  ELSE IF Head(a) # Head(b) THEN Head(a) < Head(b)
  ELSE StrLess(Tail(a), Tail(b))

\* Insert string s into the ascending list l (before the first greater one).
RECURSIVE InsertSorted(_, _)
InsertSorted(s, l) ==
  IF l = <<>> THEN <<s>>
  ELSE IF StrLess(s, Head(l)) THEN <<s>> \o l
  ELSE <<Head(l)>> \o InsertSorted(s, Tail(l))

\* sorted(list of str)
RECURSIVE Sorted(_)
Sorted(l) ==
  IF l = <<>> THEN <<>>
  ELSE InsertSorted(Head(l), Sorted(Tail(l)))

\* str(n) for a non-negative int: its decimal digits.
RECURSIVE NatStr(_)
NatStr(n) ==
  IF n < 10 THEN <<48 + n>>
  ELSE NatStr(n \div 10) \o <<48 + (n % 10)>>

\* str(n) for an int.
IntStr(n) ==
  IF n < 0 THEN <<45>> \o NatStr(0 - n) ELSE NatStr(n)

\* s.replace(old, "") : every non-overlapping occurrence, left to right.
RECURSIVE Remove(_, _)
Remove(s, old) ==
  IF s = <<>> THEN <<>>
  ELSE IF StartsWith(s, old) THEN Remove(SubSeq(s, Len(old) + 1, Len(s)), old)
  ELSE <<Head(s)>> \o Remove(Tail(s), old)

\* s.lstrip("_")
RECURSIVE LStrip(_)
LStrip(s) ==
  IF s # <<>> /\ Head(s) = 95 THEN LStrip(Tail(s)) ELSE s

\* s.rstrip("_")
RECURSIVE RStrip(_)
RStrip(s) ==
  IF s # <<>> /\ s[Len(s)] = 95 THEN RStrip(SubSeq(s, 1, Len(s) - 1)) ELSE s

\* s.strip("_")
Strip(s) == RStrip(LStrip(s))

(***************************************************************************)
(* _create_module_name                                                     *)
(***************************************************************************)

\* A parameter value: a Python int or a Python str.
IntVal(n) == [kind |-> "int", int |-> n, str |-> <<>>]
StrVal(s) == [kind |-> "str", int |-> 0, str |-> s]

\* Faulty variant: every value rendered as the empty string.
MutValStr(val) == <<>>
\* val_str(val): str(val).
val_str(val) == IF val.kind = "int" THEN IntStr(val.int) ELSE val.str

\* param_strings, in the iteration order of params.
RECURSIVE ParamStrings(_)
ParamStrings(params) ==
  IF params = <<>> THEN <<>>
  ELSE <<Head(params).name \o val_str(Head(params).attr)>> \o ParamStrings(Tail(params))

\* Faulty variant: the parameter strings appended in the order given, unsorted.
MutParamOrder(param_strings) == param_strings
\* The order in which the parameter strings are appended: sorted(param_strings).
ParamOrder(param_strings) == Sorted(param_strings)

\* for ps in ...: name += "_" + ps
RECURSIVE AppendAll(_, _)
AppendAll(name, pss) ==
  IF pss = <<>> THEN name
  ELSE AppendAll(name \o <<95>> \o Head(pss), Tail(pss))

\* Faulty variant: an underscore appended without looking at ret[-1].
RECURSIVE MutSanitize(_, _)
MutSanitize(ret, name) ==
  IF name = <<>> THEN ret
  ELSE LET c == Head(name) IN
       IF IsAlnum(c) THEN MutSanitize(ret \o <<c>>, Tail(name))
       ELSE IF c \notin DroppedChars /\ Len(ret) > 0
            THEN MutSanitize(ret \o <<95>>, Tail(name))
       ELSE MutSanitize(ret, Tail(name))
\* The character loop of lines 50-54, from accumulator ret.
RECURSIVE Sanitize(_, _)
Sanitize(ret, name) ==
  IF name = <<>> THEN ret
  ELSE LET c == Head(name) IN
       IF IsAlnum(c) THEN Sanitize(ret \o <<c>>, Tail(name))
       ELSE IF c \notin DroppedChars /\ Len(ret) > 0 /\ ret[Len(ret)] # 95
            THEN Sanitize(ret \o <<95>>, Tail(name))
       ELSE Sanitize(ret, Tail(name))

create_module_name(name, params) ==
  LET full == AppendAll(name, ParamOrder(ParamStrings(params)))
  IN  Strip(Sanitize(<<>>, Remove(full, HwPrefix)))

\* None, or a present value.
None == [isNone |-> TRUE]
Some(v) == [isNone |-> FALSE, val |-> v]

\* ModuleLikeBuilderBase.name of a builder b = [clsname, module_name,
\* parameters, ngenerators].
BuilderName(b) ==
  IF ~b.module_name.isNone THEN b.module_name.val
  ELSE IF ~b.parameters.isNone /\ b.ngenerators > 0
       THEN create_module_name(b.clsname, b.parameters.val)
  ELSE b.clsname

(***************************************************************************)
(* Specification SpecName: the name of a builder, derived once and compared *)
(* with what any reordering of its parameters derives.                      *)
(***************************************************************************)

\* Largest number of parameters of a definition in SpecName.
MaxParams == 2

\* "Adder", "M"
ClsNames == { <<65, 100, 100, 101, 114>>, <<77>> }
\* "a", "b", "w"
ParamNames == { <<97>>, <<98>>, <<119>> }
\* The ints 1, 2 and 16, and two values whose str() is "[1, -2]" (a list) and
\* "!hw.array<2xi8>" (a type).
ParamVals ==
  { IntVal(1), IntVal(2), IntVal(16),
    StrVal(<<91, 49, 44, 32, 45, 50, 93>>),
    StrVal(<<33, 104, 119, 46, 97, 114, 114, 97, 121, 60, 50, 120, 105, 56, 62>>) }
Param(n, v) == [name |-> n, attr |-> v]
AllParams == { Param(n, v) : n \in ParamNames, v \in ParamVals }

\* Parameter lists of at most n entries, each name bound once.
RECURSIVE ParamSeqs(_)
ParamSeqs(n) ==
  IF n = 0 THEN { <<>> }
  ELSE LET shorter == ParamSeqs(n - 1)
       IN  shorter \cup
           { Append(s, p) : s \in { t \in shorter : Len(t) = n - 1 }, p \in AllParams }

DistinctNames(s) ==
  \A i, j \in 1..Len(s) : i # j => s[i].name # s[j].name

\* "Top": an explicit module_name override.
OverrideName == <<84, 111, 112>>

NameBuilders ==
  { [clsname |-> c, module_name |-> o, parameters |-> p, ngenerators |-> g] :
      c \in ClsNames,
      o \in { None, Some(OverrideName) },
      p \in { None } \cup { Some(s) : s \in { t \in ParamSeqs(MaxParams) : DistinctNames(t) } },
      g \in 0..1 }

NoName == [done |-> FALSE, name |-> <<>>]

\* An operation of SpecName leaves the rest of the system alone.
NameOnly == UNCHANGED <<cacheVars, scanVars, instVars, genVars, symVars>>

InitName ==
  /\ nmBuilder \in NameBuilders
  /\ nmResult = NoName
  /\ nmOrder = None

IdleName ==
  /\ nmBuilder = [clsname |-> <<77>>, module_name |-> None, parameters |-> None,
                  ngenerators |-> 0]
  /\ nmResult = NoName
  /\ nmOrder = None

\* Read builder.name once.
DeriveName ==
  /\ ~nmResult.done
  /\ nmResult' = [done |-> TRUE, name |-> BuilderName(nmBuilder)]
  /\ nmOrder' = nmBuilder.parameters
  /\ UNCHANGED nmBuilder
  /\ NameOnly

\* The same name-to-value pairs supplied in another order: entries i and
\* i+1 exchanged.
Reorder(i) ==
  /\ ~nmBuilder.parameters.isNone
  /\ i \in 1..(Len(nmBuilder.parameters.val) - 1)
  /\ LET s == nmBuilder.parameters.val
         t == [s EXCEPT ![i] = s[i + 1], ![i + 1] = s[i]]
     IN  nmBuilder' = [nmBuilder EXCEPT !.parameters = Some(t)]
  /\ UNCHANGED <<nmResult, nmOrder>>
  /\ NameOnly

NextName ==
  \/ DeriveName
  \/ \E i \in 1..MaxParams : Reorder(i)

\* C10: the name derived for a builder equals the name derived from any
\* other supplied order of the same name-to-value pairs: once the name has
\* been read, reordering the parameters never makes builder.name differ.
C10_NameOrderIndependent ==
  nmResult.done => nmResult.name = BuilderName(nmBuilder)

\* A name derived from two or more parameters (so create_module_name ran),
\* with the parameters now in an order other than the one it was derived from.
C10_Witness ==
  /\ nmResult.done
  /\ nmBuilder.module_name.isNone
  /\ nmBuilder.ngenerators > 0
  /\ ~nmBuilder.parameters.isNone
  /\ Len(nmBuilder.parameters.val) >= 2
  /\ nmBuilder.parameters # nmOrder
  /\ nmResult.name # nmBuilder.clsname

\* s without its leading non-alphanumeric characters.
RECURSIVE SkipNonAlnum(_)
SkipNonAlnum(s) ==
  IF s # <<>> /\ ~IsAlnum(Head(s)) THEN SkipNonAlnum(Tail(s)) ELSE s

\* s with every maximal run of non-alphanumeric characters replaced by one
\* underscore.
RECURSIVE CollapseRuns(_)
CollapseRuns(s) ==
  IF s = <<>> THEN <<>>
  ELSE IF IsAlnum(Head(s)) THEN <<Head(s)>> \o CollapseRuns(Tail(s))
  ELSE <<95>> \o CollapseRuns(SkipNonAlnum(s))

\* s without the characters of set cs.
DeleteChars(s, cs) == SelectSeq(s, LAMBDA c : c \notin cs)

\* Only alphanumerics and underscores, no two underscores in a row, no
\* underscore at either end.
WellFormedName(s) ==
  /\ \A i \in 1..Len(s) : IsAlnum(s[i]) \/ s[i] = 95
  /\ \A i \in 1..(Len(s) - 1) : ~(s[i] = 95 /\ s[i + 1] = 95)
  /\ s # <<>> => (s[1] # 95 /\ s[Len(s)] # 95)

\* The base name followed by "_" + name + valuestring for each parameter, in
\* sorted order of the rendered strings.
JoinedName(b, params) == AppendAll(b.clsname, Sorted(ParamStrings(params)))

\* The name has been derived from the base name and the parameters (no
\* override; parameterized, with a generator).
NameDerived ==
  /\ nmResult.done
  /\ nmBuilder.module_name.isNone
  /\ ~nmOrder.isNone
  /\ nmBuilder.ngenerators > 0

\* C24 as stated: the derived name is the joined name with every maximal
\* run of non-alphanumeric characters collapsed to exactly one underscore
\* and leading/trailing underscores removed; it holds only alphanumerics and
\* underscores, never two underscores in a row, none at either end.
C24_AllRunsCollapsed ==
  NameDerived =>
    /\ nmResult.name = Strip(CollapseRuns(JoinedName(nmBuilder, nmOrder.val)))
    /\ WellFormedName(nmResult.name)

\* C24 as amended: the derived name is the joined name with every "!hw."
\* removed, then the characters ! > [ ] , " deleted, then every maximal run
\* of the remaining non-alphanumeric characters collapsed to exactly one
\* underscore and leading/trailing underscores removed; it holds only
\* alphanumerics and underscores, never two underscores in a row, none at
\* either end.
C24_RunsCollapsedAfterDeletions ==
  NameDerived =>
    /\ nmResult.name =
         Strip(CollapseRuns(DeleteChars(
           Remove(JoinedName(nmBuilder, nmOrder.val), <<33, 104, 119, 46>>),
           {33, 62, 91, 93, 44, 34})))
    /\ WellFormedName(nmResult.name)

\* M with a = [1, -2] and b = !hw.array<2xi8> is named M_a1_2_barray_2xi8.
C24_Witness ==
  /\ NameDerived
  /\ nmBuilder.clsname = <<77>>
  /\ nmOrder.val =
       << Param(<<97>>, StrVal(<<91, 49, 44, 32, 45, 50, 93>>)),
          Param(<<98>>, StrVal(<<33, 104, 119, 46, 97, 114, 114, 97, 121, 60,
                                 50, 120, 105, 56, 62>>)) >>
  /\ nmResult.name =
       <<77, 95, 97, 49, 95, 50, 95, 98, 97, 114, 114, 97, 121, 95, 50, 120,
         105, 56>>

(***************************************************************************)
(* modparams: the parameterization cache.                                   *)
(***************************************************************************)

\* Largest number of factory calls in a behaviour of SpecCache.
MaxCalls == 3

\* A declared parameter of a factory: its name and its default, if any.
SigParam(n, d) == [name |-> n, default |-> d]

\* The wrapped factory functions and inspect.signature of each:
\*   def makeAdder(w, d=1, _x=1)      def makeOther(w)      def makeShared(w)
Funcs == { "makeAdder", "makeOther", "makeShared" }
SigOf(f) ==
  IF f = "makeAdder"
  THEN << SigParam(<<119>>, None), SigParam(<<100>>, Some(IntVal(1))),
          SigParam(<<95, 120>>, Some(IntVal(1))) >>
  ELSE << SigParam(<<119>>, None) >>

\* Whether a factory's body can return a Module subclass, and something else.
BodyResults(f) == IF f = "makeOther" THEN { TRUE, FALSE } ELSE { TRUE }

\* Whether the body of factory f holds a class statement, so that every run
\* of it defines a new class: makeAdder and makeOther do, the body of
\* makeShared is `return Shared`, a class defined once beside it.
DefinesNewClass(f) == f # "makeShared"

\* The class object Shared.
Shared == 0

\* cls = self.func(*args, **kwargs): the class a run of f's body returns,
\* where fresh is the class object a class statement would create.
BodyResult(f, fresh) == IF DefinesNewClass(f) THEN fresh ELSE Shared

\* The values a caller passes to a factory: makeAdder and makeShared take
\* the ints 1 and 2, makeOther the ints 1 and 2 and the string "1".
ArgVals(f) ==
  IF f = "makeOther" THEN { IntVal(1), IntVal(2), StrVal(<<49>>) }
  ELSE { IntVal(1), IntVal(2) }
\* Names a caller may pass by keyword: "w", "d", "_x" to makeAdder, "w" and
\* "d" to makeOther (which has no parameter "d"), "w" to makeShared.
KwNames(f) ==
  IF f = "makeAdder" THEN { <<119>>, <<100>>, <<95, 120>> }
  ELSE IF f = "makeOther" THEN { <<119>>, <<100>> }
  ELSE { <<119>> }
\* The longest positional argument list a caller passes: one more than
\* makeOther accepts.
NArgs(f) == IF f = "makeAdder" THEN 3 ELSE IF f = "makeOther" THEN 2 ELSE 1

\* Positional argument lists of at most n values.
RECURSIVE ArgSeqs(_, _)
ArgSeqs(f, n) ==
  IF n = 0 THEN { <<>> }
  ELSE LET shorter == ArgSeqs(f, n - 1)
       IN  shorter \cup
           { Append(s, v) : s \in { t \in shorter : Len(t) = n - 1 }, v \in ArgVals(f) }

\* Keyword arguments: a value for each name of some set of names.
KwArgs(f) == UNION { [ns -> ArgVals(f)] : ns \in SUBSET KwNames(f) }

SigIndex(sig, n) == CHOOSE i \in 1..Len(sig) : sig[i].name = n
SigNames(sig) == { sig[i].name : i \in 1..Len(sig) }

\* Whether self.sig.bind(*args, **kwargs) succeeds (else it raises TypeError):
\* no surplus positional, no unknown keyword, no parameter given twice, and
\* every parameter without a default given.
BindOk(sig, args, kw) ==
  /\ Len(args) <= Len(sig)
  /\ DOMAIN kw \subseteq SigNames(sig)
  /\ \A n \in DOMAIN kw : SigIndex(sig, n) > Len(args)
  /\ \A i \in 1..Len(sig) :
       sig[i].default.isNone => (i <= Len(args) \/ sig[i].name \in DOMAIN kw)

\* param_values.arguments after bind and apply_defaults, in signature order.
BoundArguments(sig, args, kw) ==
  [ i \in 1..Len(sig) |->
      Param(sig[i].name,
            IF i <= Len(args) THEN args[i]
            ELSE IF sig[i].name \in DOMAIN kw THEN kw[sig[i].name]
            ELSE sig[i].default.val) ]

\* Faulty variant: the arguments whose name starts with "_" kept as parameters.
MutNonPrivate(arguments) == arguments
\* The dict comprehension of lines 701-703: arguments whose name does not
\* start with "_", in order.
RECURSIVE NonPrivate(_)
NonPrivate(arguments) ==
  IF arguments = <<>> THEN <<>>
  ELSE IF StartsWith(Head(arguments).name, <<95>>) THEN NonPrivate(Tail(arguments))
  ELSE <<Head(arguments)>> \o NonPrivate(Tail(arguments))

\* Insert parameter p into l, ascending by name.
RECURSIVE InsertByName(_, _)
InsertByName(p, l) ==
  IF l = <<>> THEN <<p>>
  ELSE IF StrLess(p.name, Head(l).name) THEN <<p>> \o l
  ELSE <<Head(l)>> \o InsertByName(p, Tail(l))

\* _obj_to_attribute on a dict: the ir.DictAttr of its entries, which holds
\* them sorted by name whatever order they were given in.
RECURSIVE DictAttr(_)
DictAttr(params) ==
  IF params = <<>> THEN <<>>
  ELSE InsertByName(Head(params), DictAttr(Tail(params)))

\* _get_module_cache_key(func, params)
get_module_cache_key(func, params) == <<func, DictAttr(params)>>

\* Faulty variant: the lookup never finds the key.
MutCacheHit(cache_key) == FALSE
\* `cache_key in _MODULE_CACHE`
CacheHit(cache_key) == cache_key \in DOMAIN MODULE_CACHE

\* Faulty variant: the entry stored under the parameters as bound, not the normalized key.
MutStoreKey(func, params, cache_key) == <<func, params>>
\* The key a new entry is stored under: _MODULE_CACHE[cache_key] = cls.
StoreKey(func, params, cache_key) == cache_key

\* Faulty variant: the parameters attached as bound, not as the key holds them.
MutAttachedParameters(params, cache_key) == params
\* cls._builder.parameters = cache_key[1]
AttachedParameters(params, cache_key) == cache_key[2]

\* fn[k], or d where fn has no k.
Get(fn, k, d) == IF k \in DOMAIN fn THEN fn[k] ELSE d
\* fn with k mapped to v.
Put(fn, k, v) == [ x \in DOMAIN fn \cup {k} |-> IF x = k THEN v ELSE fn[x] ]

Empty == [ x \in {} |-> 0 ]

NoCall == [func |-> "", key |-> <<>>, outcome |-> "none", result |-> 0]

\* An operation of SpecCache leaves the rest of the system alone.
CacheOnly == UNCHANGED <<nameVars, scanVars, instVars, genVars, symVars>>

InitCache ==
  /\ MODULE_CACHE = Empty
  /\ parameters = Empty
  /\ nextCls = 1
  /\ bodyRuns = Empty
  /\ returned = Empty
  /\ lastCall = NoCall
  /\ nCalls = 0
  /\ rawCalls = <<>>

IdleCache == InitCache

\* modparams.__call__(*args, **kwargs) whose bind raises TypeError.
BindErrorStep(f, args, kw) ==
  /\ nCalls < MaxCalls
  /\ ~BindOk(SigOf(f), args, kw)
  /\ lastCall' = [func |-> f, key |-> <<>>, outcome |-> "bind_error", result |-> 0]
  /\ nCalls' = nCalls + 1
  /\ UNCHANGED <<MODULE_CACHE, parameters, nextCls, bodyRuns, returned>>
  /\ CacheOnly

\* modparams.__call__(*args, **kwargs) that finds its key in the cache.
HitStep(f, args, kw) ==
  /\ nCalls < MaxCalls
  /\ BindOk(SigOf(f), args, kw)
  /\ LET cache_key == get_module_cache_key(f, NonPrivate(BoundArguments(SigOf(f), args, kw)))
     IN  /\ CacheHit(cache_key)
         /\ lastCall' = [func |-> f, key |-> cache_key[2], outcome |-> "hit",
                         result |-> MODULE_CACHE[cache_key]]
         /\ returned' = Put(returned, cache_key,
                            Get(returned, cache_key, {}) \cup { MODULE_CACHE[cache_key] })
  /\ nCalls' = nCalls + 1
  /\ UNCHANGED <<MODULE_CACHE, parameters, nextCls, bodyRuns>>
  /\ CacheOnly

\* modparams.__call__(*args, **kwargs) that misses: the factory body runs and
\* returns a Module subclass (isModule) or something else.
MissStep(f, args, kw, isModule) ==
  /\ nCalls < MaxCalls
  /\ BindOk(SigOf(f), args, kw)
  /\ isModule \in BodyResults(f)
  /\ LET params == NonPrivate(BoundArguments(SigOf(f), args, kw))
         cache_key == get_module_cache_key(f, params)
         cls == BodyResult(f, nextCls)
     IN  /\ ~CacheHit(cache_key)
         /\ bodyRuns' = Put(bodyRuns, cache_key, Get(bodyRuns, cache_key, 0) + 1)
         /\ IF isModule
            THEN /\ parameters' = Put(parameters, cls, AttachedParameters(params, cache_key))
                 /\ MODULE_CACHE' = Put(MODULE_CACHE, StoreKey(f, params, cache_key), cls)
                 /\ nextCls' = IF DefinesNewClass(f) THEN nextCls + 1 ELSE nextCls
                 /\ returned' = Put(returned, cache_key,
                                    Get(returned, cache_key, {}) \cup { cls })
                 /\ lastCall' = [func |-> f, key |-> cache_key[2], outcome |-> "miss",
                                 result |-> cls]
            ELSE /\ lastCall' = [func |-> f, key |-> cache_key[2],
                                 outcome |-> "not_module", result |-> 0]
                 /\ UNCHANGED <<MODULE_CACHE, parameters, nextCls, returned>>
  /\ nCalls' = nCalls + 1
  /\ CacheOnly

\* The calls of SpecCache: rawCalls, the record SpecNorm keeps of the
\* arguments as passed, is not kept.
CallBindError(f, args, kw) ==
  /\ BindErrorStep(f, args, kw)
  /\ UNCHANGED rawCalls

CallHit(f, args, kw) ==
  /\ HitStep(f, args, kw)
  /\ UNCHANGED rawCalls

CallMiss(f, args, kw, isModule) ==
  /\ MissStep(f, args, kw, isModule)
  /\ UNCHANGED rawCalls

NextCache ==
  \/ \E f \in Funcs : \E args \in ArgSeqs(f, NArgs(f)), kw \in KwArgs(f) :
        CallBindError(f, args, kw)
  \/ \E f \in Funcs : \E args \in ArgSeqs(f, NArgs(f)), kw \in KwArgs(f) :
        CallHit(f, args, kw)
  \/ \E f \in Funcs : \E args \in ArgSeqs(f, NArgs(f)), kw \in KwArgs(f),
                           isModule \in BOOLEAN :
        CallMiss(f, args, kw, isModule)

\* C1: any two calls to the same factory whose arguments normalize to the
\* same ParameterKey return the identical definition: all the calls made for
\* one (factory, key) pair have returned one and the same class object.
C1_SameKeySameObject ==
  \A p \in DOMAIN returned : Cardinality(returned[p]) <= 1

\* A second call for a pair has returned, from the cache, the object the
\* first call created.
C1_Witness ==
  /\ lastCall.outcome = "hit"
  /\ <<lastCall.func, lastCall.key>> \in DOMAIN returned
  /\ returned[<<lastCall.func, lastCall.key>>] = { lastCall.result }
  /\ bodyRuns[<<lastCall.func, lastCall.key>>] = 1

\* C2 as stated: the factory body is executed at most once per distinct
\* (factory, ParameterKey) pair.
C2_AtMostOncePerPair ==
  \A p \in DOMAIN bodyRuns : bodyRuns[p] <= 1

\* C2 as amended: once a call for a (factory, key) pair has returned a
\* definition (the pair is cached), no later call executes the factory body
\* for that pair and the cached definition stays the same.
C2_NoRecomputeOnceCached ==
  [][\A p \in DOMAIN MODULE_CACHE :
        /\ p \in DOMAIN MODULE_CACHE'
        /\ MODULE_CACHE'[p] = MODULE_CACHE[p]
        /\ bodyRuns'[p] = bodyRuns[p]]_vars

\* A call hits a pair whose body ran twice before the pair was cached (the
\* first run's result was rejected): the hit runs it no third time.
C2_Witness ==
  /\ lastCall.outcome = "hit"
  /\ nCalls = 3
  /\ bodyRuns[<<lastCall.func, lastCall.key>>] = 2

\* The __name__ of the class a factory's body defines: "Adder" in makeAdder,
\* "M" in makeOther; makeShared returns the class "S".
FactoryClsName(f) ==
  IF f = "makeAdder" THEN <<65, 100, 100, 101, 114>>
  ELSE IF f = "makeOther" THEN <<77>>
  ELSE <<83>>

\* The builder of a class a factory returned: a definition with one generator
\* and no module_name override, its parameters set by modparams.__call__.
FactoryBuilder(f, cls) ==
  [clsname |-> FactoryClsName(f), module_name |-> None,
   parameters |-> Some(parameters[cls]), ngenerators |-> 1]

\* The derived display name of the definition cached under p = <<func, key>>.
DisplayName(p) == BuilderName(FactoryBuilder(p[1], MODULE_CACHE[p]))

\* A key that binds one parameter, to a non-negative integer.
SingleNatKey(key) ==
  /\ Len(key) = 1
  /\ key[1].attr.kind = "int"
  /\ key[1].attr.int >= 0

\* C11 as stated: for a parameterized factory of generation-backed
\* definitions, any two calls whose arguments normalize to different
\* ParameterKeys return distinct definitions whose derived display names
\* differ.
C11_DistinctKeysDistinctNames ==
  \A p1, p2 \in DOMAIN MODULE_CACHE :
     (p1[1] = p2[1] /\ p1[2] # p2[2]) =>
        /\ MODULE_CACHE[p1] # MODULE_CACHE[p2]
        /\ DisplayName(p1) # DisplayName(p2)

\* The definition cached under p is cached under no other pair.
Unshared(p) ==
  \A q \in DOMAIN MODULE_CACHE : MODULE_CACHE[q] = MODULE_CACHE[p] => q = p

\* C11 as amended: two calls with different ParameterKeys to one factory
\* whose body defines a new class on every run return distinct definitions,
\* and the derived display names differ when each key binds the factory's
\* only parameter to a non-negative integer and neither definition is cached
\* under another pair.
C11_DistinctKeysDistinctDefinitions ==
  \A p1, p2 \in DOMAIN MODULE_CACHE :
     (p1[1] = p2[1] /\ p1[2] # p2[2] /\ DefinesNewClass(p1[1])) =>
        /\ MODULE_CACHE[p1] # MODULE_CACHE[p2]
        /\ (SingleNatKey(p1[2]) /\ SingleNatKey(p2[2])
              /\ Unshared(p1) /\ Unshared(p2)) =>
              DisplayName(p1) # DisplayName(p2)

\* makeOther(1) and makeOther(2) have both been called: two definitions,
\* named M_w1 and M_w2.
C11_Witness ==
  LET k1 == <<"makeOther", <<Param(<<119>>, IntVal(1))>>>>
      k2 == <<"makeOther", <<Param(<<119>>, IntVal(2))>>>>
  IN  /\ k1 \in DOMAIN MODULE_CACHE
      /\ k2 \in DOMAIN MODULE_CACHE
      /\ MODULE_CACHE[k1] # MODULE_CACHE[k2]
      /\ DisplayName(k1) = <<77, 95, 119, 49>>
      /\ DisplayName(k2) = <<77, 95, 119, 50>>

(***************************************************************************)
(* Specification SpecNorm: a call of a factory, followed by calls that     *)
(* pass the same arguments in another form.                                *)
(***************************************************************************)

\* Largest number of calls in a behaviour of SpecNorm.
MaxVariants == 2

\* A call as written: factory(*args, **kw).
RawCall(f, args, kw) == [func |-> f, args |-> args, kw |-> kw]

\* What call c passes for parameter i of its factory, positionally or by
\* keyword: None when it passes nothing for it.
PassedValue(c, i) ==
  LET sig == SigOf(c.func)
  IN  IF i <= Len(c.args) THEN Some(c.args[i])
      ELSE IF sig[i].name \in DOMAIN c.kw THEN Some(c.kw[sig[i].name])
      ELSE None

\* Calls c1 and c2 of one factory differ at most in the values of
\* parameters whose name starts with "_", in passing a default value or
\* leaving it out, and in passing positionally or by keyword.
DiffersOnlyInForm(c1, c2) ==
  /\ c1.func = c2.func
  /\ BindOk(SigOf(c1.func), c1.args, c1.kw)
  /\ BindOk(SigOf(c2.func), c2.args, c2.kw)
  /\ \A i \in 1..Len(SigOf(c1.func)) :
        LET p == SigOf(c1.func)[i]
            v1 == PassedValue(c1, i)
            v2 == PassedValue(c2, i)
        IN  \/ Head(p.name) = 95
            \/ v1 = v2
            \/ v1.isNone /\ v2 = p.default
            \/ v2.isNone /\ v1 = p.default

\* What SpecNorm keeps of a call once it is over: the call as written, the
\* key it normalized to, how it ended, what it returned, and how often the
\* factory body has run for the key.
RawEntry(f, args, kw, call, runs) ==
  [ call |-> RawCall(f, args, kw), key |-> call.key, outcome |-> call.outcome,
    result |-> call.result, runs |-> Get(runs, <<f, call.key>>, 0) ]

\* The first call of a behaviour: the cache is empty, the factory body runs.
NormFirstCall(f, args, kw, isModule) ==
  /\ rawCalls = <<>>
  /\ MissStep(f, args, kw, isModule)
  /\ rawCalls' = << RawEntry(f, args, kw, lastCall', bodyRuns') >>

\* A later call that passes the first call's arguments in another form and
\* finds its key in the cache.
NormVariantHit(f, args, kw) ==
  /\ rawCalls # <<>>
  /\ Len(rawCalls) < MaxVariants
  /\ DiffersOnlyInForm(rawCalls[1].call, RawCall(f, args, kw))
  /\ HitStep(f, args, kw)
  /\ rawCalls' = Append(rawCalls, RawEntry(f, args, kw, lastCall', bodyRuns'))

\* A later call that passes the first call's arguments in another form and
\* does not find its key in the cache.
NormVariantMiss(f, args, kw, isModule) ==
  /\ rawCalls # <<>>
  /\ Len(rawCalls) < MaxVariants
  /\ DiffersOnlyInForm(rawCalls[1].call, RawCall(f, args, kw))
  /\ MissStep(f, args, kw, isModule)
  /\ rawCalls' = Append(rawCalls, RawEntry(f, args, kw, lastCall', bodyRuns'))

NextNorm ==
  \/ \E f \in Funcs : \E args \in ArgSeqs(f, NArgs(f)), kw \in KwArgs(f),
                           isModule \in BOOLEAN :
        NormFirstCall(f, args, kw, isModule)
  \/ \E f \in Funcs : \E args \in ArgSeqs(f, NArgs(f)), kw \in KwArgs(f) :
        NormVariantHit(f, args, kw)
  \/ \E f \in Funcs : \E args \in ArgSeqs(f, NArgs(f)), kw \in KwArgs(f),
                           isModule \in BOOLEAN :
        NormVariantMiss(f, args, kw, isModule)

\* C21: two calls to one factory that differ only in the values of
\* arguments whose name begins with "_", in passing a default value
\* explicitly or omitting it, or in passing positionally or by keyword,
\* normalize to the same ParameterKey; once one of them has returned a
\* definition the other returns that same definition from the cache, and
\* the factory body is not run again.
C21_KeyNormalization ==
  \A i, j \in 1..Len(rawCalls) :
     (i < j /\ DiffersOnlyInForm(rawCalls[i].call, rawCalls[j].call)) =>
        /\ rawCalls[j].key = rawCalls[i].key
        /\ rawCalls[i].outcome \in { "miss", "hit" } =>
              /\ rawCalls[j].outcome = "hit"
              /\ rawCalls[j].result = rawCalls[i].result
              /\ rawCalls[j].runs = rawCalls[i].runs

\* makeAdder(1) followed by makeAdder(w=1, d=1, _x=2): the second call
\* returns the definition the first one made.
C21_Witness ==
  /\ Len(rawCalls) = 2
  /\ rawCalls[1].call = RawCall("makeAdder", << IntVal(1) >>, Empty)
  /\ rawCalls[2].call.args = <<>>
  /\ DOMAIN rawCalls[2].call.kw = { <<119>>, <<100>>, <<95, 120>> }
  /\ rawCalls[2].call.kw[<<119>>] = IntVal(1)
  /\ rawCalls[2].call.kw[<<100>>] = IntVal(1)
  /\ rawCalls[2].call.kw[<<95, 120>>] = IntVal(2)
  /\ rawCalls[2].outcome = "hit"
  /\ rawCalls[2].result = rawCalls[1].result
  /\ rawCalls[2].runs = 1

\* C22 as stated: after any sequence of factory calls, every cache entry
\* (factory, key) -> definition has the definition's attached parameter set
\* equal to the key's parameters (so no later miss on another key has
\* changed the parameter set of a definition stored before).
C22_EntriesCarryTheirKey ==
  \A p \in DOMAIN MODULE_CACHE : parameters[MODULE_CACHE[p]] = p[2]

\* C22 as amended: after every call, each cache entry whose definition is
\* cached under no other pair has the definition's parameter set equal to
\* the key's parameters; a cache hit changes no definition's parameter set
\* and no cache entry; and a call never changes the parameter set of a
\* definition stored under another key unless the factory body returned
\* that same definition for the new key.
C22_UnsharedEntriesCarryTheirKey ==
  [][/\ \A p \in DOMAIN MODULE_CACHE' :
           (\A q \in DOMAIN MODULE_CACHE' :
               MODULE_CACHE'[q] = MODULE_CACHE'[p] => q = p)
             => parameters'[MODULE_CACHE'[p]] = p[2]
     /\ (nCalls' # nCalls /\ lastCall'.outcome = "hit") =>
           (parameters' = parameters /\ MODULE_CACHE' = MODULE_CACHE)
     /\ \A p \in DOMAIN MODULE_CACHE :
           /\ p \in DOMAIN MODULE_CACHE'
           /\ MODULE_CACHE'[p] = MODULE_CACHE[p]
           /\ (nCalls' # nCalls /\ lastCall'.outcome = "miss"
                 /\ lastCall'.result # MODULE_CACHE[p])
                => parameters'[MODULE_CACHE[p]] = parameters[MODULE_CACHE[p]]
    ]_vars

\* makeOther(1) was cached, makeOther(2) then missed and makeOther(1) hit:
\* both entries carry their own key's parameters.
C22_Witness ==
  LET k1 == <<"makeOther", <<Param(<<119>>, IntVal(1))>>>>
      k2 == <<"makeOther", <<Param(<<119>>, IntVal(2))>>>>
  IN  /\ nCalls = 3
      /\ lastCall.outcome = "hit"
      /\ lastCall.key = k1[2]
      /\ k1 \in DOMAIN MODULE_CACHE
      /\ k2 \in DOMAIN MODULE_CACHE
      /\ MODULE_CACHE[k1] < MODULE_CACHE[k2]
      /\ parameters[MODULE_CACHE[k1]] = k1[2]
      /\ parameters[MODULE_CACHE[k2]] = k2[2]

(***************************************************************************)
(* ModuleLikeBuilderBase.scan_cls: the class scanner.                      *)
(***************************************************************************)

\* Largest number of attributes of a class body in SpecScan.
MaxAttrs == 3
\* Largest number of times one class is scanned in SpecScan.
MaxScans == 2

\* The reserved attribute name "Attributes" (line 262).
AttributesName == <<65, 116, 116, 114, 105, 98, 117, 116, 101, 115>>
\* "a", "b", "c"
PublicNames == { <<97>>, <<98>>, <<99>> }
\* "_p"
PrivateNames == { <<95, 112>> }

\* What a class attribute is: an Input, Output, Clock or Reset marker, a
\* Generator, a Constant, or anything else.
AttrKinds == { "Input", "Output", "Clock", "Reset", "Generator", "Constant", "Other" }

\* isinstance(attr, Input): Clock and Reset are Inputs.
IsInput(kind) == kind \in { "Input", "Clock", "Reset" }
IsOutput(kind) == kind = "Output"

Attr(n, k) == [name |-> n, kind |-> k]

\* The attributes a class body may hold: any kind under a public name, a
\* port or something else under a private name, and the Attributes list.
AllAttrs ==
  { Attr(n, k) : n \in PublicNames, k \in AttrKinds }
    \cup { Attr(n, k) : n \in PrivateNames, k \in { "Input", "Other" } }
    \cup { Attr(AttributesName, "Other") }

\* Class bodies of at most n attributes (a dict: each name once), in
\* declaration order.
RECURSIVE ClassDicts(_)
ClassDicts(n) ==
  IF n = 0 THEN { <<>> }
  ELSE LET shorter == ClassDicts(n - 1)
       IN  shorter \cup
           UNION { { Append(d, a) :
                       a \in { b \in AllAttrs : \A i \in 1..Len(d) : d[i].name # b.name } } :
                   d \in { t \in shorter : Len(t) = n - 1 } }

\* A marker before any scan: Input(type) has neither name nor idx.
Unscanned == [name |-> <<>>, idx |-> -1]

\* Faulty variant: one counter shared by both directions.
MutOutputIdx(num_inputs, num_outputs) == num_inputs + num_outputs
\* The index given to an output marker (line 286) and to an input marker
\* (line 281), from the two counters.
OutputIdx(num_inputs, num_outputs) == num_outputs
InputIdx(num_inputs, num_outputs) == num_inputs

\* The locals of scan_cls before its loop (lines 251-257), with the markers
\* as they are.
ScanStart(mk) ==
  [ ports |-> <<>>, clock_ports |-> {}, reset_ports |-> {}, generators |-> {},
    constants |-> {}, num_inputs |-> 0, num_outputs |-> 0, markers |-> mk ]

\* One iteration of the loop (lines 258-293) on attribute i of the class.
ScanAttr(st, dct, i) ==
  LET attr_name == dct[i].name
      kind == dct[i].kind
  IN  IF StartsWith(attr_name, <<95>>) THEN st
      ELSE IF attr_name = AttributesName THEN st
      ELSE LET c1 == IF kind = "Clock"
                     THEN [st EXCEPT !.clock_ports = @ \cup { st.num_inputs }]
                     ELSE IF kind = "Reset"
                     THEN [st EXCEPT !.reset_ports = @ \cup { st.num_inputs }]
                     ELSE st
           IN  IF IsInput(kind)
               THEN [c1 EXCEPT
                       !.markers[i] = [name |-> attr_name,
                                       idx |-> InputIdx(st.num_inputs, st.num_outputs)],
                       !.num_inputs = @ + 1,
                       !.ports = Append(@, i)]
               ELSE IF IsOutput(kind)
               THEN [c1 EXCEPT
                       !.markers[i] = [name |-> attr_name,
                                       idx |-> OutputIdx(st.num_inputs, st.num_outputs)],
                       !.num_outputs = @ + 1,
                       !.ports = Append(@, i)]
               ELSE IF kind = "Generator"
               THEN [c1 EXCEPT !.generators = @ \cup { attr_name }]
               ELSE IF kind = "Constant"
               THEN [c1 EXCEPT !.constants = @ \cup { attr_name }]
               ELSE c1

\* The loop over self.cls_dct.items(), attributes i..Len(dct).
RECURSIVE ScanLoop(_, _, _)
ScanLoop(st, dct, i) ==
  IF i > Len(dct) THEN st
  ELSE ScanLoop(ScanAttr(st, dct, i), dct, i + 1)

\* What a scan leaves, as a reader of the builder sees it: each port's
\* direction, name and idx, and the role sets and names.
Snapshot(dct, mk, ps, cl, rs, gs, cs) ==
  [ ports |-> [ k \in 1..Len(ps) |->
                  [ input |-> IsInput(dct[ps[k]].kind),
                    name |-> mk[ps[k]].name, idx |-> mk[ps[k]].idx ] ],
    clocks |-> cl, resets |-> rs, generators |-> gs, constants |-> cs ]

ScanOnly == UNCHANGED <<cacheVars, nameVars, instVars, genVars, symVars>>

InitScan ==
  /\ cls_dct \in ClassDicts(MaxAttrs)
  /\ markers = [ i \in 1..Len(cls_dct) |-> Unscanned ]
  /\ ports = <<>>
  /\ clocks = {}
  /\ resets = {}
  /\ generators = None
  /\ constants = None
  /\ scans = 0
  /\ firstScan = None

IdleScan ==
  /\ cls_dct = <<>>
  /\ markers = <<>>
  /\ ports = <<>>
  /\ clocks = {}
  /\ resets = {}
  /\ generators = None
  /\ constants = None
  /\ scans = 0
  /\ firstScan = None

\* builder.scan_cls()
scan_cls ==
  /\ scans < MaxScans
  /\ LET st == ScanLoop(ScanStart(markers), cls_dct, 1)
     IN  /\ markers' = st.markers
         /\ ports' = st.ports
         /\ clocks' = st.clock_ports
         /\ resets' = st.reset_ports
         /\ generators' = Some(st.generators)
         /\ constants' = Some(st.constants)
         /\ firstScan' = IF scans = 0
                         THEN Some(Snapshot(cls_dct, st.markers, st.ports, st.clock_ports,
                                            st.reset_ports, st.generators, st.constants))
                         ELSE firstScan
  /\ scans' = scans + 1
  /\ UNCHANGED cls_dct
  /\ ScanOnly

NextScan == scan_cls

\* builder.inputs and builder.outputs: the ports of each direction, in order.
BuilderInputs == SelectSeq(ports, LAMBDA i : IsInput(cls_dct[i].kind))
BuilderOutputs == SelectSeq(ports, LAMBDA i : IsOutput(cls_dct[i].kind))

\* The attributes of the class that declare a port: public, not the
\* Attributes group, and an Input or an Output.
DeclaresPort(i) ==
  /\ ~StartsWith(cls_dct[i].name, <<95>>)
  /\ cls_dct[i].name # AttributesName
  /\ (IsInput(cls_dct[i].kind) \/ IsOutput(cls_dct[i].kind))

MaxSupplied == 3
\* Largest number of instances built in a behaviour of SpecInst.
MaxInstances == 2

Port(n, t) == [name |-> n, type |-> t]

\* The builders instantiated: one with a generator, an extern one (no
\* generator) and one that declares two generators, each with inputs
\* a: i8, b: i8, c: i16.
InstBuilders ==
  { [ clsname |-> "Adder", ngenerators |-> 1,
      inputs |-> << Port("a", "i8"), Port("b", "i8"), Port("c", "i16") >> ],
    [ clsname |-> "Ext", ngenerators |-> 0,
      inputs |-> << Port("a", "i8"), Port("b", "i8"), Port("c", "i16") >> ],
    [ clsname |-> "Two", ngenerators |-> 2,
      inputs |-> << Port("a", "i8"), Port("b", "i8"), Port("c", "i16") >> ] }

\* What a caller may supply for an input: a Signal (of some type, wrapping
\* an IR value), None, or a Python literal.
Signal(id, t) == [kind |-> "signal", type |-> t, value |-> id]
NoneVal == [kind |-> "none", type |-> "", value |-> 0]
Literal(n) == [kind |-> "literal", type |-> "", value |-> n]
SuppliedVals == { Signal(1, "i8"), Signal(2, "i16"), NoneVal, Literal(5) }
\* The names a caller may use: the ports' names and one that is no port.
SuppliedNames == { "a", "b", "c", "x" }

\* IR values an input is resolved to: a signal's value, the constant zero of
\* create_const_zero(port.type), the constant port.type(literal).
SignalValue(sig) == [ir |-> "value", type |-> sig.type, value |-> sig.value]
ConstZero(t) == [ir |-> "const", type |-> t, value |-> 0]
ConstOf(t, lit) == [ir |-> "const", type |-> t, value |-> lit.value]

\* port_input_lookup: the names of the input ports, and the port of a name.
InputNames(b) == { b.inputs[i].name : i \in 1..Len(b.inputs) }
InputPort(b, n) == b.inputs[CHOOSE i \in 1..Len(b.inputs) : b.inputs[i].name = n]

\* Faulty variant: the type comparison left out.
MutTypeDiffers(signal, port) == FALSE
\* `signal.type != port.type` (line 549).
TypeDiffers(signal, port) == signal.type # port.type

\* Faulty variant: None accepted whether or not there is a generator.
MutNoneRejected(b) == FALSE
\* `len(self.generators) > 0` on a None input (line 555).
NoneRejected(b) == b.ngenerators > 0

\* The loop of lines 543-563 from entry i of the inputs mapping, with the
\* inputs resolved so far: the error raised, if any, and circt_inputs.
RECURSIVE ResolveInputs(_, _, _, _)
ResolveInputs(b, inputs, i, circt_inputs) ==
  IF i > Len(inputs) THEN [error |-> "", circt_inputs |-> circt_inputs]
  ELSE LET name == inputs[i].name
           signal == inputs[i].value
       IN  IF name \notin InputNames(b)
           THEN [error |-> "PortError_not_found", circt_inputs |-> circt_inputs]
           ELSE LET port == InputPort(b, name) IN
                IF signal.kind = "signal"
                THEN IF TypeDiffers(signal, port)
                     THEN [error |-> "ValueError_wrong_type", circt_inputs |-> circt_inputs]
                     ELSE ResolveInputs(b, inputs, i + 1,
                                        Put(circt_inputs, name, SignalValue(signal)))
                ELSE IF signal.kind = "none"
                THEN IF NoneRejected(b)
                     THEN [error |-> "PortError_none", circt_inputs |-> circt_inputs]
                     ELSE ResolveInputs(b, inputs, i + 1,
                                        Put(circt_inputs, name, ConstZero(port.type)))
                ELSE ResolveInputs(b, inputs, i + 1,
                                   Put(circt_inputs, name, ConstOf(port.type, signal)))

\* Faulty variant: only the first missing port reported.
MutMissing(b, circt_inputs) ==
  LET all == SelectSeq(b.inputs, LAMBDA p : p.name \notin DOMAIN circt_inputs)
  IN  IF all = <<>> THEN <<>> ELSE << all[1].name >>
\* The input ports with no entry in circt_inputs, in port order (line 565).
Missing(b, circt_inputs) ==
  LET all == SelectSeq(b.inputs, LAMBDA p : p.name \notin DOMAIN circt_inputs)
  IN  [ k \in 1..Len(all) |-> all[k].name ]

\* The System's op cache as far as the instantiated definition goes: the node
\* cached for it (None before it is created), how often the circt_mod
\* property was read and how often a node was created, and the handles
\* the reads returned.
NoOps == [node |-> None, lookups |-> 0, creates |-> 0, reads |-> {}]

\* sys._op_cache.get_circt_mod(self): the cached node, or None.
get_circt_mod(cache) == cache.node

\* sys._create_circt_mod(self): creates the node of the definition, records
\* it in the op cache and returns it.  Handles are numbered in creation order.
create_circt_mod(cache) ==
  LET handle == cache.creates + 1
  IN  [cache |-> [cache EXCEPT !.node = Some(handle), !.creates = handle],
       ret |-> handle]

\* Faulty variant: the cached node is never used, every read creates one.
MutCachedNodeFound(ret) == FALSE
\* `if ret is None` of the circt_mod property, negated: the lookup found a node.
CachedNodeFound(ret) == ~ret.isNone

\* The circt_mod property read once: the cache afterwards and the handle
\* returned.
circt_mod_read(cache) ==
  LET ret == get_circt_mod(cache)
      r == IF CachedNodeFound(ret) THEN [cache |-> cache, ret |-> ret.val]
           ELSE create_circt_mod(cache)
  IN  [cache |-> [r.cache EXCEPT !.lookups = @ + 1, !.reads = @ \cup { r.ret }],
       ret |-> r.ret]

\* Faulty variant: self.circt_mod read before the inputs are checked.
MutCacheAfterRaise(cache) == circt_mod_read(cache).cache
\* The op cache when instantiate has raised in lines 543-568: line 570,
\* `circt_mod = self.circt_mod`, has not been reached.
CacheAfterRaise(cache) == cache

NoInst == [called |-> FALSE, outcome |-> "", missing |-> <<>>, circt_inputs |-> Empty,
           instancesBefore |-> 0, lookupsBefore |-> 0, createsBefore |-> 0]

InstOnly == UNCHANGED <<cacheVars, nameVars, scanVars, genVars, symVars>>

InitInst ==
  /\ instMod \in InstBuilders
  /\ inst_inputs = <<>>
  /\ lastInst = NoInst
  /\ instances = 0
  /\ op_cache = NoOps

IdleInst ==
  /\ instMod = [clsname |-> "Ext", ngenerators |-> 0, inputs |-> <<>>]
  /\ inst_inputs = <<>>
  /\ lastInst = NoInst
  /\ instances = 0
  /\ op_cache = NoOps

\* The caller adds name=value to the inputs it is about to pass.
Supply(n, v) ==
  /\ ~lastInst.called
  /\ Len(inst_inputs) < MaxSupplied
  /\ \A i \in 1..Len(inst_inputs) : inst_inputs[i].name # n
  /\ inst_inputs' = Append(inst_inputs, [name |-> n, value |-> v])
  /\ UNCHANGED <<instMod, lastInst, instances, op_cache>>
  /\ InstOnly

\* builder.instantiate(module_inst, inputs, instance_name) that raises.
InstantiateFails ==
  /\ ~lastInst.called
  /\ op_cache.lookups < MaxInstances
  /\ LET r == ResolveInputs(instMod, inst_inputs, 1, Empty)
         missing == IF r.error = "" THEN Missing(instMod, r.circt_inputs) ELSE <<>>
     IN  /\ r.error # "" \/ Len(missing) > 0
         /\ lastInst' = [ called |-> TRUE,
                          outcome |-> IF r.error # "" THEN r.error ELSE "ValueError_missing",
                          missing |-> missing,
                          circt_inputs |-> r.circt_inputs,
                          instancesBefore |-> instances,
                          lookupsBefore |-> op_cache.lookups,
                          createsBefore |-> op_cache.creates ]
  /\ op_cache' = CacheAfterRaise(op_cache)
  /\ UNCHANGED <<instMod, inst_inputs, instances>>
  /\ InstOnly

\* builder.instantiate(module_inst, inputs, instance_name) that returns the
\* instance: self.circt_mod looks the module op up in the System's cache
\* and creates it when it is not there; then hw.InstanceBuilder builds.
InstantiateOk ==
  /\ ~lastInst.called
  /\ op_cache.lookups < MaxInstances
  /\ LET r == ResolveInputs(instMod, inst_inputs, 1, Empty)
     IN  /\ r.error = ""
         /\ Len(Missing(instMod, r.circt_inputs)) = 0
         /\ lastInst' = [ called |-> TRUE, outcome |-> "ok", missing |-> <<>>,
                          circt_inputs |-> r.circt_inputs,
                          instancesBefore |-> instances,
                          lookupsBefore |-> op_cache.lookups,
                          createsBefore |-> op_cache.creates ]
  /\ op_cache' = circt_mod_read(op_cache).cache
  /\ instances' = instances + 1
  /\ UNCHANGED <<instMod, inst_inputs>>
  /\ InstOnly

\* The caller goes on to its next instantiation.
NextCall ==
  /\ lastInst.called
  /\ inst_inputs' = <<>>
  /\ lastInst' = NoInst
  /\ UNCHANGED <<instMod, instances, op_cache>>
  /\ InstOnly

NextInst ==
  \/ \E n \in SuppliedNames, v \in SuppliedVals : Supply(n, v)
  \/ InstantiateFails
  \/ InstantiateOk
  \/ NextCall

\* The names supplied to the last call, and the input ports given no value.
SuppliedTo == { inst_inputs[i].name : i \in 1..Len(inst_inputs) }
Unsupplied == InputNames(instMod) \ SuppliedTo

\* Entry i of the supplied mapping names no input port / is a signal of
\* another type than its port / is None although the definition has a
\* generation routine.
UnknownName(i) == inst_inputs[i].name \notin InputNames(instMod)
Mismatched(i) ==
  /\ inst_inputs[i].name \in InputNames(instMod)
  /\ inst_inputs[i].value.kind = "signal"
  /\ inst_inputs[i].value.type # InputPort(instMod, inst_inputs[i].name).type
AbsentOnGenerated(i) ==
  /\ inst_inputs[i].name \in InputNames(instMod)
  /\ inst_inputs[i].value.kind = "none"
  /\ instMod.ngenerators > 0
Invalid(i) == UnknownName(i) \/ Mismatched(i) \/ AbsentOnGenerated(i)

\* C7: when every supplied name and value is valid but some input port is
\* given no value, instantiate fails with the missing-input error, the error
\* lists every input port absent from the supplied mapping (each once), and
\* no instance node is built.
C7_MissingInputsAllListed ==
  ( /\ lastInst.called
    /\ \A i \in 1..Len(inst_inputs) : ~Invalid(i)
    /\ Unsupplied # {} )
  => /\ lastInst.outcome = "ValueError_missing"
     /\ { lastInst.missing[k] : k \in 1..Len(lastInst.missing) } = Unsupplied
     /\ Len(lastInst.missing) = Cardinality(Unsupplied)
     /\ instances = lastInst.instancesBefore

\* One valid input supplied, two input ports left without a value: both
\* are reported.
C7_Witness ==
  /\ lastInst.called
  /\ Len(inst_inputs) = 1
  /\ ~Invalid(1)
  /\ lastInst.outcome = "ValueError_missing"
  /\ Len(lastInst.missing) = 2

\* C8 as stated: whenever some supplied value is a signal whose type is not
\* the declared type of the named input port, instantiate fails with the
\* type-mismatch error and builds no instance node.
C8_MismatchAlwaysTypeError ==
  ( /\ lastInst.called
    /\ \E i \in 1..Len(inst_inputs) : Mismatched(i) )
  => /\ lastInst.outcome = "ValueError_wrong_type"
     /\ instances = lastInst.instancesBefore

\* C8 as amended: whenever some supplied value is a signal whose type is
\* not the declared type of the named input port, instantiate fails and
\* builds no instance node; the error raised is that of the first invalid
\* entry of the supplied mapping, so it is the type-mismatch error exactly
\* when no earlier entry names an unknown port or gives None to a
\* definition with a generation routine.
C8_MismatchFailsFirstErrorWins ==
  ( /\ lastInst.called
    /\ \E i \in 1..Len(inst_inputs) : Mismatched(i) )
  => LET first == CHOOSE i \in 1..Len(inst_inputs) :
                    Invalid(i) /\ \A j \in 1..(i - 1) : ~Invalid(j)
     IN  /\ instances = lastInst.instancesBefore
         /\ Mismatched(first) => lastInst.outcome = "ValueError_wrong_type"
         /\ UnknownName(first) => lastInst.outcome = "PortError_not_found"
         /\ AbsentOnGenerated(first) => lastInst.outcome = "PortError_none"

\* A valid entry followed by a signal of the wrong type: the type-mismatch
\* error.
C8_Witness ==
  /\ lastInst.called
  /\ Len(inst_inputs) = 2
  /\ ~Invalid(1)
  /\ Mismatched(2)
  /\ lastInst.outcome = "ValueError_wrong_type"

\* C9: None for an input of a definition that has a generation routine
\* makes instantiate fail (no instance node is built). For an input of a
\* definition without one it is accepted: no error is raised for it, the
\* port is resolved to the zero constant of the port's type, and the port
\* is not among the missing ones.
C9_AbsentInput ==
  lastInst.called =>
    \A i \in 1..Len(inst_inputs) :
      ( /\ inst_inputs[i].name \in InputNames(instMod)
        /\ inst_inputs[i].value.kind = "none" )
      => IF instMod.ngenerators > 0
         THEN /\ lastInst.outcome \notin { "ok", "ValueError_missing" }
              /\ instances = lastInst.instancesBefore
         ELSE /\ lastInst.outcome # "PortError_none"
              /\ (\A j \in 1..(i - 1) : ~Invalid(j)) =>
                   LET n == inst_inputs[i].name IN
                   /\ n \in DOMAIN lastInst.circt_inputs
                   /\ lastInst.circt_inputs[n] = ConstZero(InputPort(instMod, n).type)
                   /\ \A k \in 1..Len(lastInst.missing) : lastInst.missing[k] # n

\* An extern definition instantiated with None for one input and the other
\* inputs connected: the instance is built, the port tied to zero.
C9_Witness ==
  /\ lastInst.called
  /\ instMod.ngenerators = 0
  /\ lastInst.outcome = "ok"
  /\ instances = lastInst.instancesBefore + 1
  /\ \E i \in 1..Len(inst_inputs) :
       /\ inst_inputs[i].value.kind = "none"
       /\ lastInst.circt_inputs[inst_inputs[i].name].ir = "const"

\* C12: materialization is idempotent: all the reads of a definition's
\* circt_mod in one System have returned the same node handle, and the node
\* was created at most once.
C12_MaterializedOnce ==
  /\ Cardinality(op_cache.reads) <= 1
  /\ op_cache.creates <= 1

\* The definition's circt_mod has been read twice (by two instantiations):
\* one node was created and both reads returned it.
C12_Witness ==
  /\ op_cache.lookups = 2
  /\ op_cache.creates = 1
  /\ op_cache.reads = { 1 }
  /\ op_cache.node = Some(1)

\* C23 as stated: a definition that declares more than one generator is
\* rejected: it is never instantiated and no IR module node is ever created
\* for it.
C23_MultipleGeneratorsRejected ==
  instMod.ngenerators > 1 => (instances = 0 /\ op_cache.creates = 0)

\* The ways instantiate fails on its inputs: unknown input name, signal type
\* mismatch, None on a definition with a generator, missing inputs.
InputFailures ==
  { "PortError_not_found", "ValueError_wrong_type", "PortError_none",
    "ValueError_missing" }

\* C25: whenever instantiate fails because of an unknown input name, a type
\* mismatch, an absent input on a generation-backed definition or missing
\* inputs, that call has neither looked up nor created the callee's IR
\* module node and has built no instance; a call that did read the node had
\* resolved every input port first.
C25_ValidationPrecedesMaterialization ==
  lastInst.called =>
    /\ lastInst.outcome \in InputFailures =>
          /\ op_cache.lookups = lastInst.lookupsBefore
          /\ op_cache.creates = lastInst.createsBefore
          /\ instances = lastInst.instancesBefore
    /\ op_cache.lookups # lastInst.lookupsBefore =>
          /\ lastInst.outcome = "ok"
          /\ DOMAIN lastInst.circt_inputs = InputNames(instMod)

\* After one instantiation that built an instance, a second one has failed
\* on a signal of the wrong type: still one lookup, one node, one instance.
C25_Witness ==
  /\ lastInst.called
  /\ lastInst.outcome = "ValueError_wrong_type"
  /\ lastInst.lookupsBefore = 1
  /\ op_cache.lookups = 1
  /\ op_cache.creates = 1
  /\ instances = 1

(***************************************************************************)
(* _BlockContext.uniquify_symbol.                                          *)
(***************************************************************************)

\* Faulty variant: no candidate is ever seen as taken.
MutSymbolTaken(ret, syms) == FALSE
\* `ret in self.symbols`
SymbolTaken(ret, syms) == ret \in syms

\* f"{sym}_{ctr}"
Suffixed(sym, ctr) == sym \o <<95>> \o NatStr(ctr)

\* The while loop of uniquify_symbol from the point where the candidate is
\* ret and the counter ctr, run for at most fuel tests of its condition:
\* the candidate it ends with, and whether it ended within the fuel.
RECURSIVE UniquifyLoop(_, _, _, _, _)
UniquifyLoop(syms, sym, ctr, ret, fuel) ==
  IF ~SymbolTaken(ret, syms) THEN [done |-> TRUE, ret |-> ret, ctr |-> ctr]
  ELSE IF fuel = 0 THEN [done |-> FALSE, ret |-> ret, ctr |-> ctr]
  ELSE UniquifyLoop(syms, sym, ctr + 1, Suffixed(sym, ctr + 1), fuel - 1)

\* uniquify_symbol(sym) on a context whose symbols are syms: the symbols
\* afterwards and the name returned.  The loop is given one test more than
\* there are symbols, which is as many as it can need.
uniquify_symbol(syms, sym) ==
  LET r == UniquifyLoop(syms, sym, 0, sym, Cardinality(syms) + 1)
  IN  [symbols |-> syms \cup { r.ret }, ret |-> r.ret, done |-> r.done]

(***************************************************************************)
(* ModuleBuilder.generate, GeneratorCtxt, PortProxyBase, _BlockContext:    *)
(* the generator engine.                                                    *)
(***************************************************************************)

\* The builders generated, each with one generator:
\*   A: inputs clk (Clock), x: i8;              outputs y: i8, z: i16
\*   B: input  x: i8;                           output  q: i8
\*   C: inputs clk1 (Clock), clk2 (Clock), x;   no output
GenMods == { "A", "B", "C" }
GenBuilder(m) ==
  IF m = "A"
  THEN [ outputs |-> << Port("y", "i8"), Port("z", "i16") >>, clocks |-> { 0 },
         ninputs |-> 2 ]
  ELSE IF m = "B"
  THEN [ outputs |-> << Port("q", "i8") >>, clocks |-> {}, ninputs |-> 1 ]
  ELSE [ outputs |-> <<>>, clocks |-> { 0, 1 }, ninputs |-> 3 ]

\* The generators that trigger a generation while they run: A's generator
\* generates B and C; those of B and C generate nothing.
Triggers(outer, m) == outer = "A" /\ m # "A"

\* What a generator may assign to an output.
AssignedVals == { Signal(1, "i8"), Signal(3, "i16"), Literal(5) }

\* What a generator may return: None, or a value.
GenReturns == { None, Some("value") }

\* _current_block_context holds no context ("none") or the _BlockContext of
\* a generation, named after the module generated.
NoContext == "none"

\* PortProxyBase.__init__(block_args, builder)
NewPortProxy(m) ==
  [ block_args |-> Some([ i \in 1..GenBuilder(m).ninputs |-> <<m, i - 1>> ]),
    output_values |-> Some([ i \in 1..Len(GenBuilder(m).outputs) |-> None ]),
    builder |-> Some(m) ]

\* A port proxy with nothing left in it.
ClearedPortProxy == [ block_args |-> None, output_values |-> None, builder |-> None ]

\* Faulty variant: the builder reference survives.
MutPortProxyClear(proxy) == [ proxy EXCEPT !.block_args = None, !.output_values = None ]
\* PortProxyBase._clear()
PortProxyClear(proxy) ==
  [ proxy EXCEPT !.block_args = None, !.output_values = None, !.builder = None ]

\* Faulty variant: a signal of any type passes.
MutOutputTypeDiffers(port, signal) == FALSE
\* `port.type != signal.type` of _set_output, for a Signal.
OutputTypeDiffers(port, signal) == port.type # signal.type

\* Faulty variant: a slot once filled keeps its value.
MutStoreOutput(output_values, idx, value) ==
  IF output_values[idx + 1].isNone
  THEN [ output_values EXCEPT ![idx + 1] = Some(value) ]
  ELSE output_values
\* self._output_values[idx] = signal
StoreOutput(output_values, idx, value) ==
  [ output_values EXCEPT ![idx + 1] = Some(value) ]

\* PortProxyBase._set_output(idx, signal) for a signal that is not None: the
\* error raised ("" for none) and the slots afterwards.
set_output(output_values, outputs, idx, signal) ==
  LET port == outputs[idx + 1]
  IN  IF signal.kind = "signal"
      THEN IF OutputTypeDiffers(port, signal)
           THEN [ error |-> "PortError", output_values |-> output_values ]
           ELSE [ error |-> "",
                  output_values |-> StoreOutput(output_values, idx, SignalValue(signal)) ]
      ELSE [ error |-> "",
             output_values |-> StoreOutput(output_values, idx, ConstOf(port.type, signal)) ]

\* Faulty variant: every output named as soon as one is unconnected.
MutUnconnected(output_values, outputs) ==
  IF \E i \in 1..Len(output_values) : output_values[i].isNone
  THEN [ k \in 1..Len(outputs) |-> outputs[k].name ]
  ELSE <<>>
\* The names _check_unconnected_outputs collects: of each output whose slot
\* holds None, in slot order.
Unconnected(output_values, outputs) ==
  LET idxs == SelectSeq([ i \in 1..Len(output_values) |-> i ],
                        LAMBDA i : output_values[i].isNone)
  IN  [ k \in 1..Len(idxs) |-> outputs[idxs[k]].name ]

\* Faulty variant: no return value is rejected.
MutInvalidReturn(outputs) == FALSE
\* `if outputs is not None` of generate, on what the generator returned.
InvalidReturn(outputs) == ~outputs.isNone

\* Faulty variant: a clock is bound as soon as there is one.
MutImplicitClock(clks) == Cardinality(clks) >= 1
\* `builder.clocks is not None and len(builder.clocks) == 1`
ImplicitClock(clks) == Cardinality(clks) = 1

\* GeneratorCtxt.__init__: self.clk, the ClockSignal of the block argument of
\* the only clock port, or None.
CtxtClk(builder, proxy) ==
  IF ImplicitClock(builder.clocks)
  THEN LET clk_port == CHOOSE c \in builder.clocks : TRUE
       IN  Some(proxy.block_args.val[clk_port + 1])
  ELSE None

\* An event of a generation: a scope entered or left, or a call made.
Event(op, what) == [op |-> op, what |-> what]

\* GeneratorCtxt.__enter__: the scopes entered, in order.
CtxtEnter(clk) ==
  << Event("enter", "bc"), Event("enter", "bb"), Event("enter", "ip"),
     Event("enter", "loc") >>
  \o (IF ~clk.isNone THEN << Event("enter", "clk") >> ELSE <<>>)

\* Faulty variant: the scopes left in the order they were entered.
MutCtxtExit(clk) ==
  << Event("exit", "bc"), Event("exit", "bb"), Event("exit", "ip"),
     Event("exit", "loc") >>
  \o (IF ~clk.isNone THEN << Event("exit", "clk") >> ELSE <<>>)
  \o << Event("call", "_clear") >>
\* GeneratorCtxt.__exit__: the scopes left, in order, and the proxy cleared.
CtxtExit(clk) ==
  (IF ~clk.isNone THEN << Event("exit", "clk") >> ELSE <<>>)
  \o << Event("exit", "loc"), Event("exit", "ip"), Event("exit", "bb"),
        Event("exit", "bc"), Event("call", "_clear") >>

\* _BlockContext.__exit__(exc_type, exc_value, traceback): the value of
\* _current_block_context afterwards. With an exception in flight it
\* returns before the reset.
BlockContextExit(raised, old_system_token) ==
  IF raised THEN current_block_context ELSE old_system_token

NoModule == [entry_block |-> FALSE, terminator |-> None]
\* lastGen tells of the generation that has just ended, lastSet of the output
\* assignment just made: each is reset by the step that follows.
NoGen == [ mod |-> "", outcome |-> "none", finished |-> "", names |-> <<>>,
           slots |-> <<>>, ctx_before |-> NoContext, ports |-> ClearedPortProxy,
           log |-> <<>>, clk |-> None, written |-> <<>>, reassigned |-> FALSE ]
NoSet == [ outcome |-> "none", mod |-> "", idx |-> 0, signal |-> NoneVal,
           before |-> <<>>, after |-> <<>> ]
NoUniq == [ called |-> FALSE, sym |-> <<>>, ret |-> <<>>, before |-> {},
            done |-> FALSE ]

\* Largest number of symbols of one block context in SpecGen.
MaxSyms == 1
\* The instance names a generator asks for: "a".
InstanceNames == { <<97>> }

OthersIdle == UNCHANGED <<cacheVars, nameVars, scanVars, instVars>>
GenOnly == OthersIdle /\ UNCHANGED symVars

InitGen ==
  /\ frames = <<>>
  /\ current_block_context = NoContext
  /\ circt_mod = [ m \in GenMods |-> NoModule ]
  /\ lastGen = NoGen
  /\ lastSet = NoSet

IdleGen == InitGen

InitSym ==
  /\ symbols = [ m \in GenMods |-> {} ]
  /\ uniqReturned = <<>>
  /\ lastUniq = NoUniq

IdleSym == InitSym

Top == frames[Len(frames)]
Pop == SubSeq(frames, 1, Len(frames) - 1)

\* The symbols of the context of the generation that encloses a new one
\* (None when there is none): what the new one must leave alone.
OuterSymbols ==
  IF frames = <<>> THEN None ELSE Some(symbols[Top.mod])

\* builder.generate() up to the call of the generator: the entry block is
\* added, the port proxy built, and GeneratorCtxt built and entered (the
\* block context becomes the current one). Called by the System, or from the
\* generator of another module while that one runs.
GenerateBegin(m) ==
  /\ frames # <<>> => Triggers(Top.mod, m)
  /\ ~circt_mod[m].entry_block
  /\ circt_mod' = [circt_mod EXCEPT ![m].entry_block = TRUE]
  /\ LET proxy == NewPortProxy(m)
         clk == CtxtClk(GenBuilder(m), proxy)
     IN  frames' = Append(frames,
                     [ mod |-> m, ports |-> proxy,
                       old_system_token |-> current_block_context,
                       ctx_before |-> current_block_context,
                       clk |-> clk,
                       log |-> CtxtEnter(clk) \o << Event("call", "gen_func") >>,
                       written |-> [ i \in 1..Len(GenBuilder(m).outputs) |-> None ],
                       reassigned |-> FALSE,
                       outer_symbols |-> OuterSymbols ])
  /\ current_block_context' = m
  /\ lastSet' = NoSet
  /\ lastGen' = NoGen
  /\ GenOnly

\* In the running generator: ports.<output idx> = signal, accepted by
\* _set_output (a signal of the port's type, or a literal it converts).
SetOutput(idx, signal) ==
  /\ frames # <<>>
  /\ LET outputs == GenBuilder(Top.mod).outputs
         before == Top.ports.output_values.val
     IN  /\ idx \in 0..(Len(outputs) - 1)
         /\ LET r == set_output(before, outputs, idx, signal)
            IN  /\ r.error = ""
                /\ frames' = [frames EXCEPT
                     ![Len(frames)].ports.output_values = Some(r.output_values),
                     ![Len(frames)].written[idx + 1] = Some(signal),
                     ![Len(frames)].reassigned = @ \/ ~before[idx + 1].isNone]
                /\ lastSet' = [ outcome |-> "ok", mod |-> Top.mod, idx |-> idx,
                                signal |-> signal, before |-> before,
                                after |-> r.output_values ]
  /\ lastGen' = NoGen
  /\ UNCHANGED <<current_block_context, circt_mod>>
  /\ GenOnly

\* In the running generator: ports.<output idx> = signal where _set_output
\* raises PortError (caught by the generator, or raised on by it in a later
\* step).
SetOutputRejected(idx, signal) ==
  /\ frames # <<>>
  /\ LET outputs == GenBuilder(Top.mod).outputs
         before == Top.ports.output_values.val
     IN  /\ idx \in 0..(Len(outputs) - 1)
         /\ LET r == set_output(before, outputs, idx, signal)
            IN  /\ r.error # ""
                /\ frames' = [frames EXCEPT
                     ![Len(frames)].ports.output_values = Some(r.output_values)]
                /\ lastSet' = [ outcome |-> r.error, mod |-> Top.mod, idx |-> idx,
                                signal |-> signal, before |-> before,
                                after |-> r.output_values ]
  /\ lastGen' = NoGen
  /\ UNCHANGED <<current_block_context, circt_mod>>
  /\ GenOnly

\* In the running generator: an instance is named (Module.__init__), the
\* name made unique in the current block context.
NameInstance(sym) ==
  /\ frames # <<>>
  /\ current_block_context # NoContext
  /\ Cardinality(symbols[current_block_context]) < MaxSyms
  /\ symbols' = [symbols EXCEPT ![current_block_context] =
                    uniquify_symbol(@, sym).symbols]
  /\ lastSet' = NoSet
  /\ lastGen' = NoGen
  /\ UNCHANGED <<uniqReturned, lastUniq>>
  /\ UNCHANGED <<frames, current_block_context, circt_mod>>
  /\ OthersIdle

\* The rest of generate() when it raises inside the with block: the
\* GeneratorCtxt exits with the exception in flight, the proxy is cleared.
\* finished tells how the generator ended, names what the error names, calls
\* what generate called after the generator.
Fail(outcome, finished, names, calls) ==
  /\ current_block_context' = BlockContextExit(TRUE, Top.old_system_token)
  /\ lastGen' = [ mod |-> Top.mod, outcome |-> outcome, finished |-> finished,
                  names |-> names, slots |-> Top.ports.output_values.val,
                  ctx_before |-> Top.ctx_before, ports |-> PortProxyClear(Top.ports),
                  log |-> Top.log \o calls \o CtxtExit(Top.clk), clk |-> Top.clk,
                  written |-> Top.written, reassigned |-> Top.reassigned ]
  /\ frames' = Pop
  /\ lastSet' = NoSet
  /\ UNCHANGED circt_mod
  /\ GenOnly

\* How the generator ended when it returned outputs.
Finished(outputs) == IF outputs.isNone THEN "none" ELSE "value"

\* The generator raises.
GenerateRaises ==
  /\ frames # <<>>
  /\ Fail("raised", "raise", <<>>, <<>>)

\* The generator returns a value that generate rejects.
GenerateReturnsValue(outputs) ==
  /\ frames # <<>>
  /\ InvalidReturn(outputs)
  /\ Fail("ValueError_return", Finished(outputs), <<>>, <<>>)

\* The generator returns, and some output is unconnected.
GenerateUnconnected(outputs) ==
  /\ frames # <<>>
  /\ ~InvalidReturn(outputs)
  /\ LET names == Unconnected(Top.ports.output_values.val, GenBuilder(Top.mod).outputs)
     IN  /\ Len(names) > 0
         /\ Fail("UnconnectedSignalError", Finished(outputs), names,
                 << Event("call", "_check_unconnected_outputs") >>)

\* The generator returns with every output connected: the OutputOp is
\* built from the slots, the GeneratorCtxt exits, the proxy is cleared.
GenerateCompletes(outputs) ==
  /\ frames # <<>>
  /\ ~InvalidReturn(outputs)
  /\ LET output_values == Top.ports.output_values.val
     IN  /\ Len(Unconnected(output_values, GenBuilder(Top.mod).outputs)) = 0
         /\ circt_mod' = [circt_mod EXCEPT ![Top.mod].terminator =
                            Some([ i \in 1..Len(output_values) |-> output_values[i].val ])]
         /\ lastGen' = [ mod |-> Top.mod, outcome |-> "ok",
                         finished |-> Finished(outputs),
                         names |-> <<>>, slots |-> output_values,
                         ctx_before |-> Top.ctx_before,
                         ports |-> PortProxyClear(Top.ports),
                         log |-> Top.log
                                 \o << Event("call", "_check_unconnected_outputs"),
                                       Event("call", "OutputOp") >>
                                 \o CtxtExit(Top.clk),
                         clk |-> Top.clk,
                         written |-> Top.written, reassigned |-> Top.reassigned ]
  /\ current_block_context' = BlockContextExit(FALSE, Top.old_system_token)
  /\ frames' = Pop
  /\ lastSet' = NoSet
  /\ GenOnly

NextGen ==
  \/ \E m \in GenMods : GenerateBegin(m)
  \/ \E idx \in 0..1, v \in AssignedVals : SetOutput(idx, v)
  \/ \E idx \in 0..1, v \in AssignedVals : SetOutputRejected(idx, v)
  \/ \E sym \in InstanceNames : NameInstance(sym)
  \/ GenerateRaises
  \/ \E outputs \in GenReturns : GenerateReturnsValue(outputs)
  \/ \E outputs \in GenReturns : GenerateUnconnected(outputs)
  \/ \E outputs \in GenReturns : GenerateCompletes(outputs)

\* The outputs of the module last generated whose slot was empty when its
\* generator ended.
EmptySlots ==
  { i \in 1..Len(lastGen.slots) : lastGen.slots[i].isNone }

\* C3 as stated: if the generation routine finishes (returns, with or
\* without a value) with some output slot unassigned, generation fails with
\* the unconnected-output error and its port names are exactly the outputs
\* whose slot is empty.
C3_UnassignedAlwaysUnconnectedError ==
  ( /\ lastGen.finished \in { "none", "value" }
    /\ EmptySlots # {} )
  => /\ lastGen.outcome = "UnconnectedSignalError"
     /\ { lastGen.names[k] : k \in 1..Len(lastGen.names) }
          = { GenBuilder(lastGen.mod).outputs[i].name : i \in EmptySlots }

\* C3 as amended: if the generation routine returns nothing (None) with
\* some output slot unassigned, generation fails with the unconnected-output
\* error and its port names are exactly the outputs whose slot is empty,
\* each once: no assigned output is named, no unassigned one omitted.
C3_UnconnectedNamesExact ==
  ( /\ lastGen.finished = "none"
    /\ EmptySlots # {} )
  => /\ lastGen.outcome = "UnconnectedSignalError"
     /\ { lastGen.names[k] : k \in 1..Len(lastGen.names) }
          = { GenBuilder(lastGen.mod).outputs[i].name : i \in EmptySlots }
     /\ Len(lastGen.names) = Cardinality(EmptySlots)

\* A generation of a two-output module that assigned one output only: the
\* error names the other one alone.
C3_Witness ==
  /\ lastGen.outcome = "UnconnectedSignalError"
  /\ Len(lastGen.slots) = 2
  /\ ~lastGen.slots[1].isNone
  /\ lastGen.names = << "z" >>

\* C4 as stated: after a generation that fails because an output is left
\* unassigned, the module node has no entry block without its terminator.
C4_NoBlockWithoutTerminator ==
  lastGen.outcome = "UnconnectedSignalError" =>
    (circt_mod[lastGen.mod].entry_block => ~circt_mod[lastGen.mod].terminator.isNone)

\* C5 as stated: after generate() raises, the current BlockContext is the
\* one that was current before generate() was called.
C5_ContextRestoredOnFailure ==
  lastGen.outcome \in { "raised", "ValueError_return", "UnconnectedSignalError" } =>
    current_block_context = lastGen.ctx_before

\* C13: after generate finishes, by returning or by raising from inside the
\* generation scope, the PortProxy handed to the generator is invalidated:
\* it holds no block arguments, no output slots and no builder.
C13_ProxyInvalidated ==
  lastGen.outcome # "none" =>
    /\ lastGen.ports.block_args.isNone
    /\ lastGen.ports.output_values.isNone
    /\ lastGen.ports.builder.isNone

\* A generator that assigned an output and then raised: its proxy is empty.
C13_Witness ==
  /\ lastGen.outcome = "raised"
  /\ lastGen.mod = "A"
  /\ ~lastGen.slots[1].isNone
  /\ lastGen.ports = ClearedPortProxy

\* The scopes of the events of a log that are enters (or exits), in order.
RECURSIVE ScopesOf(_, _)
ScopesOf(log, op) ==
  IF log = <<>> THEN <<>>
  ELSE (IF Head(log).op = op THEN << Head(log).what >> ELSE <<>>)
       \o ScopesOf(Tail(log), op)

\* The position of the call of what in a log (0 when it is not there).
CallPos(log, what) ==
  IF \E i \in 1..Len(log) : log[i] = Event("call", what)
  THEN CHOOSE i \in 1..Len(log) : log[i] = Event("call", what)
  ELSE 0

Reverse(s) == [ i \in 1..Len(s) |-> s[Len(s) + 1 - i] ]

\* C14: in a generation that succeeds every scope (block context, backedge
\* builder, insertion point, location, and the clock if one is bound) is
\* entered before the generator runs; the terminator is emitted after the
\* outputs are verified and carries the output values in output-port-index
\* order; the scopes are exited in exactly the reverse of the order they
\* were entered in; and the PortProxy is cleared last.
C14_SuccessfulGenerationOrder ==
  lastGen.outcome = "ok" =>
    LET log == lastGen.log
        entered == ScopesOf(log, "enter")
        run == CallPos(log, "gen_func")
        verified == CallPos(log, "_check_unconnected_outputs")
        emitted == CallPos(log, "OutputOp")
        outputs == GenBuilder(lastGen.mod).outputs
        terminator == circt_mod[lastGen.mod].terminator
    IN  /\ entered = << "bc", "bb", "ip", "loc" >>
                     \o (IF lastGen.clk.isNone THEN <<>> ELSE << "clk" >>)
        /\ run > 0
        /\ \A i \in 1..Len(log) : log[i].op = "enter" => i < run
        /\ run < verified
        /\ verified < emitted
        /\ \A i \in 1..Len(log) : log[i].op = "exit" => emitted < i
        /\ ScopesOf(log, "exit") = Reverse(entered)
        /\ log[Len(log)] = Event("call", "_clear")
        /\ ~terminator.isNone
        /\ Len(terminator.val) = Len(outputs)
        /\ \A i \in 1..Len(outputs) :
              /\ ~lastGen.slots[i].isNone
              /\ terminator.val[i] = lastGen.slots[i].val

\* Module A (one clock, outputs y and z) generated with success: five scopes
\* entered and left, the terminator carrying y's value, then z's.
C14_Witness ==
  /\ lastGen.outcome = "ok"
  /\ lastGen.mod = "A"
  /\ Len(lastGen.log) = 14
  /\ ScopesOf(lastGen.log, "exit") = << "clk", "loc", "ip", "bb", "bc" >>
  /\ circt_mod["A"].terminator =
       Some(<< SignalValue(Signal(1, "i8")), SignalValue(Signal(3, "i16")) >>)

\* Whether a log has the clock scope entered (or left).
ClockScope(log, op) == \E i \in 1..Len(log) : log[i] = Event(op, "clk")

\* C17: an ambient clock is bound for the generation scope if and only if
\* the definition has exactly one clock port, and the clock bound is that
\* port's block argument; with no clock port, or with two or more, no clock
\* scope is entered or exited.
C17_ClockBoundIffOneClockPort ==
  /\ \A k \in 1..Len(frames) :
        LET clks == GenBuilder(frames[k].mod).clocks
        IN  /\ ~frames[k].clk.isNone <=> Cardinality(clks) = 1
            /\ ClockScope(frames[k].log, "enter") <=> Cardinality(clks) = 1
            /\ ~frames[k].clk.isNone =>
                  \E c \in clks : frames[k].clk.val = << frames[k].mod, c >>
  /\ lastGen.outcome # "none" =>
        LET clks == GenBuilder(lastGen.mod).clocks
        IN  /\ ClockScope(lastGen.log, "enter") <=> Cardinality(clks) = 1
            /\ ClockScope(lastGen.log, "exit") <=> Cardinality(clks) = 1

\* A's generator (one clock port, port 0) runs with its block argument 0
\* bound as the clock, and inside it C's generator (two clock ports) with
\* no clock scope of its own.
C17_Witness ==
  /\ Len(frames) = 2
  /\ frames[1].mod = "A"
  /\ frames[1].clk = Some(<< "A", 0 >>)
  /\ ClockScope(frames[1].log, "enter")
  /\ frames[2].mod = "C"
  /\ frames[2].clk.isNone
  /\ ~ClockScope(frames[2].log, "enter")

\* C18: a generator that returns a value other than None makes generate fail
\* with the invalid-generator-return error, also when every output was
\* assigned, and no terminator is emitted.
C18_ReturnValueRejected ==
  lastGen.finished = "value" =>
    /\ lastGen.outcome = "ValueError_return"
    /\ CallPos(lastGen.log, "OutputOp") = 0
    /\ circt_mod[lastGen.mod].terminator.isNone

\* A's generator assigned both outputs and returned a value.
C18_Witness ==
  /\ lastGen.finished = "value"
  /\ lastGen.mod = "A"
  /\ EmptySlots = {}
  /\ lastGen.outcome = "ValueError_return"
  /\ circt_mod["A"].terminator.isNone

\* What an output port holds once signal was assigned to it.
AssignedValue(port, signal) ==
  IF signal.kind = "signal" THEN SignalValue(signal) ELSE ConstOf(port.type, signal)

\* C19: assigning an output that was already assigned is accepted and the
\* last write wins: the assignment stores its value whatever the slot held
\* and leaves the other slots alone, and the terminator of a generation that
\* succeeds carries, for each output, the value last assigned to it.
C19_LastWriteWins ==
  /\ lastSet.outcome # "none" =>
        LET port == GenBuilder(lastSet.mod).outputs[lastSet.idx + 1]
        IN  (lastSet.signal.kind = "signal" => lastSet.signal.type = port.type) =>
               /\ lastSet.outcome = "ok"
               /\ lastSet.after[lastSet.idx + 1] =
                     Some(AssignedValue(port, lastSet.signal))
               /\ \A i \in 1..Len(lastSet.after) :
                     i # lastSet.idx + 1 => lastSet.after[i] = lastSet.before[i]
  /\ lastGen.outcome = "ok" =>
        \A i \in 1..Len(lastGen.written) :
           /\ ~lastGen.written[i].isNone
           /\ circt_mod[lastGen.mod].terminator.val[i] =
                 AssignedValue(GenBuilder(lastGen.mod).outputs[i], lastGen.written[i].val)

\* B's generator assigned q a signal, then the literal 5, and returned: the
\* terminator carries the constant 5.
C19_Witness ==
  /\ lastGen.outcome = "ok"
  /\ lastGen.mod = "B"
  /\ lastGen.reassigned
  /\ lastGen.written = << Some(Literal(5)) >>
  /\ circt_mod["B"].terminator = Some(<< ConstOf("i8", Literal(5)) >>)

\* C20: assigning an output a signal whose type differs from the port's
\* declared type fails with the type-mismatch error and leaves every output
\* slot as it was.
C20_MismatchedOutputRejected ==
  lastSet.outcome # "none" =>
    LET port == GenBuilder(lastSet.mod).outputs[lastSet.idx + 1]
    IN  (lastSet.signal.kind = "signal" /\ lastSet.signal.type # port.type) =>
           /\ lastSet.outcome = "PortError"
           /\ lastSet.after = lastSet.before

\* A's generator, having assigned y, assigns the i16 signal to y (an i8
\* port): PortError, and y keeps its value.
C20_Witness ==
  /\ lastSet.outcome = "PortError"
  /\ lastSet.mod = "A"
  /\ lastSet.idx = 0
  /\ lastSet.signal = Signal(3, "i16")
  /\ ~lastSet.before[1].isNone
  /\ Top.ports.output_values.val = lastSet.before

\* C15 as stated: nested generation is properly nested: when a generation
\* that started inside another one's scope completes, the enclosing scope
\* is still open, the current block context is the enclosing generation's
\* again, and the enclosing context's symbols are what they were when the
\* nested generation started.
C15_NestedGenerationRestoresOuter ==
  [][ ( /\ Len(frames) >= 2
        /\ frames' = Pop
        /\ lastGen'.outcome = "ok" )
      => /\ current_block_context' = frames[Len(frames) - 1].mod
         /\ symbols'[frames[Len(frames) - 1].mod] = Top.outer_symbols.val ]_vars

(***************************************************************************)
(* Specification SpecSym: calls of uniquify_symbol on the block context of  *)
(* one generation.                                                         *)
(***************************************************************************)

\* Largest number of uniquify_symbol calls in a behaviour of SpecSym.
MaxUniq == 4
\* The names asked for: "a", "a_1", "b".
RequestedNames == { <<97>>, <<97, 95, 49>>, <<98>> }

\* _BlockContext.current().uniquify_symbol(sym)
UniquifySymbol(sym) ==
  /\ current_block_context # NoContext
  /\ Len(uniqReturned) < MaxUniq
  /\ LET before == symbols[current_block_context]
         r == uniquify_symbol(before, sym)
     IN  /\ symbols' = [symbols EXCEPT ![current_block_context] = r.symbols]
         /\ uniqReturned' = Append(uniqReturned, r.ret)
         /\ lastUniq' = [ called |-> TRUE, sym |-> sym, ret |-> r.ret,
                          before |-> before, done |-> r.done ]
  /\ UNCHANGED genVars
  /\ OthersIdle

\* builder.generate() called by the System, outside every generator.
GenerateTop(m) ==
  /\ frames = <<>>
  /\ GenerateBegin(m)

NextSym ==
  \/ \E m \in GenMods : GenerateTop(m)
  \/ \E sym \in RequestedNames : UniquifySymbol(sym)

\* C16: for any sequence of uniquify_symbol calls on one block context, also
\* one that asks for a name generated before (such as "a_1"), every call
\* terminates, the names returned are pairwise distinct, each name returned
\* is in the symbol set afterwards, the set only grows, and a name asked for
\* that is not yet in the set is returned unchanged.
C16_UniquifySymbol ==
  /\ \A i, j \in 1..Len(uniqReturned) : i # j => uniqReturned[i] # uniqReturned[j]
  /\ \A i \in 1..Len(uniqReturned) : uniqReturned[i] \in symbols[current_block_context]
  /\ lastUniq.called =>
        /\ lastUniq.done
        /\ lastUniq.ret \notin lastUniq.before
        /\ lastUniq.ret \in symbols[current_block_context]
        /\ lastUniq.before \subseteq symbols[current_block_context]
        /\ lastUniq.sym \notin lastUniq.before => lastUniq.ret = lastUniq.sym

\* "a" asked for twice, then "a_1": the calls returned "a", "a_1" and
\* "a_1_1".
C16_Witness ==
  /\ uniqReturned = << <<97>>, <<97, 95, 49>>, <<97, 95, 49, 95, 49>> >>
  /\ lastUniq.sym = <<97, 95, 49>>
  /\ lastUniq.before = { <<97>>, <<97, 95, 49>> }


(***************************************************************************)
(* The specifications.                                                     *)
(***************************************************************************)

InitSpecCache == InitCache /\ IdleName /\ IdleScan /\ IdleInst /\ IdleGen /\ IdleSym
SpecCache == InitSpecCache /\ [][NextCache]_vars

InitSpecNorm == InitCache /\ IdleName /\ IdleScan /\ IdleInst /\ IdleGen /\ IdleSym
SpecNorm == InitSpecNorm /\ [][NextNorm]_vars

InitSpecName == IdleCache /\ InitName /\ IdleScan /\ IdleInst /\ IdleGen /\ IdleSym
SpecName == InitSpecName /\ [][NextName]_vars

InitSpecScan == IdleCache /\ IdleName /\ InitScan /\ IdleInst /\ IdleGen /\ IdleSym
SpecScan == InitSpecScan /\ [][NextScan]_vars

InitSpecInst == IdleCache /\ IdleName /\ IdleScan /\ InitInst /\ IdleGen /\ IdleSym
SpecInst == InitSpecInst /\ [][NextInst]_vars

InitSpecGen == IdleCache /\ IdleName /\ IdleScan /\ IdleInst /\ InitGen /\ InitSym
SpecGen == InitSpecGen /\ [][NextGen]_vars

InitSpecSym == IdleCache /\ IdleName /\ IdleScan /\ IdleInst /\ InitGen /\ InitSym
SpecSym == InitSpecSym /\ [][NextSym]_vars

====
